---- MODULE Spec2Model ----
(***************************************************************************)
(* The APT provisioner of packer-plugin-apt: Config.Prepare and the eight  *)
(* steps of Provisioner.Provision over a communicator, a progress sink and *)
(* the local file system.                                                  *)
(*                                                                         *)
(* Strings are sequences of one-character strings, so that joining,        *)
(* formatting and taking a base name are computed character by character.  *)
(***************************************************************************)
EXTENDS FiniteSets, Integers, Sequences, TLC

(* ------------------------------ bounds --------------------------------- *)

\* The entries of packages, sources and keys together, in one configuration.
MaxItems == 3

(* --------------------------- fixed strings ----------------------------- *)

\* the default of cache_dir (Config.Prepare)
DefaultCacheDir ==
    <<"/", "v", "a", "r", "/", "c", "a", "c", "h", "e", "/", "a", "p", "t", "/", "a", "r", "c",
      "h", "i", "v", "e", "s">>

\* the remote package cache
RemoteArchives ==
    <<"/", "v", "a", "r", "/", "c", "a", "c", "h", "e", "/", "a", "p", "t", "/", "a", "r", "c",
      "h", "i", "v", "e", "s">>

\* the remote directory of the trust keys
TrustedDir ==
    <<"/", "e", "t", "c", "/", "a", "p", "t", "/", "t", "r", "u", "s", "t", "e", "d", ".", "g",
      "p", "g", ".", "d", "/">>

\* the remote source list
PackerListPath ==
    <<"/", "e", "t", "c", "/", "a", "p", "t", "/", "s", "o", "u", "r", "c", "e", "s", ".", "l",
      "i", "s", "t", ".", "d", "/", "p", "a", "c", "k", "e", "r", ".", "l", "i", "s", "t">>

\* the command of testRemoteDNS
DnsCommand ==
    <<"/", "b", "i", "n", "/", "s", "h", " ", "-", "c", " ", "'", "f", "o", "r", " ", "i", " ",
      "i", "n", " ", "$", "(", "s", "e", "q", " ", "1", "0", "0", ")", ";", " ", "d", "o", " ",
      "r", "e", "s", "o", "l", "v", "e", "c", "t", "l", " ", "q", "u", "e", "r", "y", " ", "d",
      "e", "b", ".", "d", "e", "b", "i", "a", "n", ".", "o", "r", "g", " ", ">", "/", "d", "e",
      "v", "/", "n", "u", "l", "l", " ", "&", "&", " ", "b", "r", "e", "a", "k", ";", " ", "s",
      "l", "e", "e", "p", " ", "0", ".", "1", ";", " ", "d", "o", "n", "e", ";", " ", "r", "e",
      "s", "o", "l", "v", "e", "c", "t", "l", " ", "q", "u", "e", "r", "y", " ", "d", "e", "b",
      ".", "d", "e", "b", "i", "a", "n", ".", "o", "r", "g", "'">>

\* the command of updateRemotePackageIndex
UpdateCommand ==
    <<"/", "u", "s", "r", "/", "b", "i", "n", "/", "a", "p", "t", "-", "g", "e", "t", " ", "u",
      "p", "d", "a", "t", "e">>

\* the format of installRemotePackages up to its %s
InstallPrefix ==
    <<"D", "E", "B", "I", "A", "N", "_", "F", "R", "O", "N", "T", "E", "N", "D", "=", "n", "o",
      "n", "i", "n", "t", "e", "r", "a", "c", "t", "i", "v", "e", " ", "/", "u", "s", "r", "/",
      "b", "i", "n", "/", "a", "p", "t", "-", "g", "e", "t", " ", "i", "n", "s", "t", "a", "l",
      "l", " ", "-", "y", " ", "-", "-", "n", "o", "-", "i", "n", "s", "t", "a", "l", "l", "-",
      "r", "e", "c", "o", "m", "m", "e", "n", "d", "s", " ">>

\* the command of cleanRemotePackages
CleanCommand ==
    <<"/", "u", "s", "r", "/", "b", "i", "n", "/", "a", "p", "t", "-", "g", "e", "t", " ", "c",
      "l", "e", "a", "n">>

\* a directory name as ioutil.TempDir(os.TempDir(), "archives-") returns it
TempDirName ==
    <<"/", "t", "m", "p", "/", "a", "r", "c", "h", "i", "v", "e", "s", "-", "1">>

(* ---------------------------- pure functions --------------------------- *)

\* strings.Join(elems, sep)
RECURSIVE Join(_, _)
Join(elems, sep) ==
    IF Len(elems) = 0 THEN <<>>
    ELSE IF Len(elems) = 1 THEN elems[1]
    ELSE elems[1] \o sep \o Join(Tail(elems), sep)

\* filepath.Base: the trailing slashes stripped
RECURSIVE StripSlashes(_)
StripSlashes(path) ==
    IF Len(path) > 0 /\ path[Len(path)] = "/"
    THEN StripSlashes(SubSeq(path, 1, Len(path) - 1))
    ELSE path

\* filepath.Base: the index of the last separator, 0 if there is none
RECURSIVE LastSlash(_, _)
LastSlash(path, i) ==
    IF i >= 1 /\ path[i] # "/" THEN LastSlash(path, i - 1) ELSE i

\* filepath.Base(path)
Base(path) ==
    IF path = <<>> THEN <<".">>
    ELSE LET p == StripSlashes(path)
             i == LastSlash(p, Len(p))
             e == IF i >= 1 THEN SubSeq(p, i + 1, Len(p)) ELSE p
         IN  IF e = <<>> THEN <<"/">> ELSE e

\* PackageListContent without the newline after the last line
PackageListContentUnterminated(sources) == Join(sources, <<"\n">>)

\* uploadPackageList: the content of the uploaded source list
PackageListContent(sources) == Join(sources, <<"\n">>) \o <<"\n">>

\* InstallCommand with the packages run together
InstallCommandUnseparated(packages) == InstallPrefix \o Join(packages, <<>>)

\* installRemotePackages: the command
InstallCommand(packages) == InstallPrefix \o Join(packages, <<" ">>)

\* uploadHostPackageTrust: the remote path of a key
KeyRemotePath(key) == TrustedDir \o Base(key)

(* ------------------------------- errors -------------------------------- *)

Nil == "nil"
ErrDecode == "decode: invalid configuration"
ErrStatNotExist == "stat: no such file or directory"
ErrStatDenied == "stat: permission denied"
ErrOpenNotExist == "open: no such file or directory"
ErrOpenDenied == "open: permission denied"
ErrFstatNotExist == "fstat: no such file or directory"
ErrFstatIO == "fstat: input/output error"
ErrUploadDir == "UploadDir: transfer failed"
ErrUpload == "Upload: transfer failed"
ErrDownloadDir == "DownloadDir: transfer failed"
ErrTempDir == "mkdir: no space left on device"
ErrMv == "mv: exit status 1"
ErrDns == "dns wait: exit status 1"
ErrUpdate == "apt-get update: exit status 100"
ErrInstall == "apt-get install: exit status 100"
ErrClean == "apt-get clean: exit status 100"

\* os.IsNotExist(err)
IsNotExist(err) == err \in {ErrStatNotExist, ErrOpenNotExist, ErrFstatNotExist}

(* ------------------------------- inputs -------------------------------- *)

PackageNames == {<<"a">>, <<"b", "c">>}
SourceLines == {<<"x">>, <<"y", " ", "z">>}
KeyPaths == {<<"k">>, <<"d", "/", "j">>}
CacheDirInputs == {<<>>, <<"/", "c">>}

SeqsUpTo(S, n) == UNION {[1..k -> S] : k \in 0..n}

\* the typed record config.Decode fills in
Configs ==
    {c \in [Packages : SeqsUpTo(PackageNames, MaxItems),
            Sources  : SeqsUpTo(SourceLines, MaxItems),
            Keys     : SeqsUpTo(KeyPaths, MaxItems),
            CacheDir : CacheDirInputs] :
        Len(c.Packages) + Len(c.Sources) + Len(c.Keys) <= MaxItems}

\* a Config before Decode: Go's zero value
ZeroConfig == [Packages |-> <<>>, Sources |-> <<>>, Keys |-> <<>>, CacheDir |-> <<>>]

\* what is at the path cache_dir names on the host
CacheKinds == {"absent", "dir", "file", "denied"}

\* the files of the model's directories; `*.deb` matches DebFiles
DebFiles == {"p.deb", "q.deb"}
OtherFiles == {"lock"}

Files == DebFiles \cup OtherFiles

\* a directory of the host: file name -> "none" (no such file), or where the file came from
NoFiles == [n \in Files |-> "none"]

\* the host cache directory before the run
HostCaches == {NoFiles, [NoFiles EXCEPT !["p.deb"] = "host"]}

\* what /var/cache/apt/archives may hold on the remote when it is downloaded
RemoteArchiveSets == {{"lock"}, {"lock", "p.deb"}, {"lock", "p.deb", "q.deb"}}

(* -------------------------------- state -------------------------------- *)

VARIABLES
    raws,         \* Prepare's input: [value: what decodes out of it, ok: whether it decodes]
    config,       \* Provisioner.config
    prepared,     \* what Prepare returned: "pending", Nil or an error
    pc,           \* Provision's position: the helper about to run, "NotStarted" or "Done"
    ret,          \* what Provision returned: "pending", Nil or an error
    key,          \* uploadHostPackageTrust: the index of the loop over config.Keys
    openFiles,    \* uploadHostPackageTrust: the indices of the keys opened and not yet closed
    stepErr,      \* updateCache: the error being returned while the deferred call runs
    cacheKind,    \* the host file system: what cache_dir names
    cacheFiles,   \* the host file system: the files of cache_dir, name -> origin
    tmpDir,       \* the host file system: the temporary directory: "none", "exists", "removed"
    tmpFiles,     \* the host file system: the files of the temporary directory
    calls,        \* every call made on the communicator and the host, in order, with its result
    ui            \* every ui.Say and ui.Error, in order

vars == <<raws, config, prepared, pc, ret, key, openFiles, stepErr, cacheKind, cacheFiles,
          tmpDir, tmpFiles, calls, ui>>

fsVars == <<cacheKind, cacheFiles, tmpDir, tmpFiles>>
cfgVars == <<raws, config, prepared>>

\* one entry of calls
Call(step, item, on, call, remote, local, res) ==
    [step |-> step, item |-> item, on |-> on, call |-> call,
     remote |-> remote, local |-> local, res |-> res]

Say(text, arg) == [kind |-> "say", text |-> text, arg |-> arg]
Error(text, arg) == [kind |-> "error", text |-> text, arg |-> arg]

Init ==
    /\ raws \in [value : Configs, ok : BOOLEAN]
    /\ config = ZeroConfig
    /\ prepared = "pending"
    /\ pc = "NotStarted"
    /\ ret = "pending"
    /\ key = 1
    /\ openFiles = {}
    /\ stepErr = Nil
    /\ cacheKind \in CacheKinds
    /\ cacheFiles \in (IF cacheKind = "dir" THEN HostCaches ELSE {NoFiles})
    /\ tmpDir = "none"
    /\ tmpFiles = {}
    /\ calls = <<>>
    /\ ui = <<>>

(* ------------------------------- Prepare ------------------------------- *)

\* DefaultCacheDirOf with the default set whatever cache_dir is
DefaultCacheDirAlways(c) == [c EXCEPT !.CacheDir = DefaultCacheDir]

\* Config.Prepare, lines 28-30: the default of cache_dir
DefaultCacheDirOf(c) ==
    IF c.CacheDir = <<>> THEN [c EXCEPT !.CacheDir = DefaultCacheDir] ELSE c

\* Config.Prepare. config.Decode either fills the record in or fails; a failing
\* Decode leaves the record untouched or filled in as far as it got.
Prepare ==
    /\ prepared = "pending"
    /\ \/ /\ raws.ok
          /\ config' = DefaultCacheDirOf(raws.value)
          /\ prepared' = Nil
       \/ /\ ~raws.ok
          /\ config' \in {ZeroConfig, raws.value}
          /\ prepared' = ErrDecode
    /\ UNCHANGED <<raws, pc, ret, key, openFiles, stepErr, fsVars, calls, ui>>

(* ------------------------------ Provision ------------------------------ *)

\* Provision, lines 64-103: the helpers in the order they are called
Steps ==
    <<"uploadHostPackageCache", "uploadHostPackageTrust", "testRemoteDNS",
      "uploadPackageList", "updateRemotePackageIndex", "installRemotePackages",
      "updateCache", "cleanRemotePackages">>

StepNo(step) == CHOOSE n \in 1..Len(Steps) : Steps[n] = step

\* NextStep with the DNS wait after the index refresh instead of before the sources
NextStepDnsLate(step) ==
    CASE step = "uploadHostPackageCache" -> "uploadHostPackageTrust"
      [] step = "uploadHostPackageTrust" ->
           IF Len(config.Sources) # 0 THEN "uploadPackageList" ELSE "testRemoteDNS"
      [] step = "uploadPackageList" -> "updateRemotePackageIndex"
      [] step = "updateRemotePackageIndex" -> "testRemoteDNS"
      [] step = "testRemoteDNS" -> "installRemotePackages"
      [] step = "installRemotePackages" -> "updateCache"
      [] step = "updateCache" -> "cleanRemotePackages"
      [] step = "cleanRemotePackages" -> "Done"

\* Provision, lines 64-98: the helper called once helper `step` has succeeded
NextStep(step) ==
    CASE step = "uploadHostPackageCache" -> "uploadHostPackageTrust"
      [] step = "uploadHostPackageTrust" -> "testRemoteDNS"
      [] step = "testRemoteDNS" ->
           IF Len(config.Sources) # 0 THEN "uploadPackageList"
           ELSE "installRemotePackages"
      [] step = "uploadPackageList" -> "updateRemotePackageIndex"
      [] step = "updateRemotePackageIndex" -> "installRemotePackages"
      [] step = "installRemotePackages" -> "updateCache"
      [] step = "updateCache" -> "cleanRemotePackages"
      [] step = "cleanRemotePackages" -> "Done"

\* ProvisionNext with the error of installRemotePackages not checked
ProvisionNextIgnoringInstall(step, err) ==
    IF err # Nil /\ step # "installRemotePackages" THEN "Done" ELSE NextStep(step)

\* Provision: where it goes when helper `step` has returned err
ProvisionNext(step, err) == IF err # Nil THEN "Done" ELSE NextStep(step)

\* Provision: what it returns when it returns after helper `step` returned err
ProvisionReturn(step, err) == err

\* Provision: the ui.Error calls it makes itself when helper `step` has failed
ProvisionErrors(step) ==
    CASE step = "uploadHostPackageCache" ->
           <<Error("Failed to upload APT cache from %s", config.CacheDir)>>
      [] step = "uploadHostPackageTrust" -> <<>>
      [] step = "testRemoteDNS" ->
           <<Error("Failed waiting for domain name resolution", <<>>)>>
      [] step = "uploadPackageList" -> <<Error("Failed to upload APT package list", <<>>)>>
      [] step = "updateRemotePackageIndex" -> <<Error("apt-get update failed", <<>>)>>
      [] step = "installRemotePackages" -> <<Error("apt-get install failed.", <<>>)>>
      [] step = "updateCache" -> <<>>
      [] step = "cleanRemotePackages" -> <<Error("apt-get clean failed, ignoring", <<>>)>>

\* helper `step` returns err to Provision, having made newCalls and logged newUi
Returns(step, err, newCalls, newUi) ==
    /\ calls' = calls \o newCalls
    /\ ui' = ui \o newUi \o (IF err # Nil THEN ProvisionErrors(step) ELSE <<>>)
    /\ pc' = ProvisionNext(step, err)
    /\ ret' = IF ProvisionNext(step, err) = "Done" THEN ProvisionReturn(step, err) ELSE ret

\* Provision, line 62: entered once Prepare has succeeded
Provision ==
    /\ prepared = Nil
    /\ pc = "NotStarted"
    /\ pc' = Steps[1]
    /\ ui' = Append(ui, Say("Provisioning with APT...", <<>>))
    /\ UNCHANGED <<cfgVars, ret, key, openFiles, stepErr, fsVars, calls>>

\* os.Stat(cache_dir)
StatCacheDir ==
    CASE cacheKind = "absent" -> ErrStatNotExist
      [] cacheKind = "denied" -> ErrStatDenied
      [] OTHER -> Nil

\* uploadHostPackageCache, line 145: whether the directory is uploaded
CacheIsUploaded(kind) == kind = "dir"

\* step 1
uploadHostPackageCache ==
    /\ pc = "uploadHostPackageCache"
    /\ LET step == "uploadHostPackageCache"
           stat == Call(1, 0, "host", "os.Stat", <<>>, config.CacheDir, StatCacheDir)
       IN  IF IsNotExist(StatCacheDir)
           THEN Returns(step, Nil, <<stat>>,
                    <<Say("Host APT package cache not found, likely not running on a debian based host. Proceeding regardless", <<>>)>>)
           ELSE IF StatCacheDir # Nil
           THEN Returns(step, StatCacheDir, <<stat>>, <<>>)
           ELSE IF CacheIsUploaded(cacheKind)
           THEN \E res \in {Nil, ErrUploadDir} :
                    Returns(step, res,
                        <<stat, Call(1, 0, "comm", "UploadDir", RemoteArchives,
                                     config.CacheDir, res)>>, <<>>)
           ELSE Returns(step, Nil, <<stat>>, <<>>)
    /\ UNCHANGED <<cfgVars, key, openFiles, stepErr, fsVars>>

\* AfterOpen with a missing key file treated like any other error
AfterOpenStrict(err) == IF err # Nil THEN "return" ELSE "stat"

\* uploadHostPackageTrust: what the loop does after os.Open returned err
AfterOpen(err) ==
    IF IsNotExist(err) THEN "continue" ELSE IF err # Nil THEN "return" ELSE "stat"

\* uploadHostPackageTrust: what the loop does after f.Stat returned err
AfterFstat(err) ==
    IF IsNotExist(err) THEN "continue" ELSE IF err # Nil THEN "return" ELSE "upload"

KeyMissing(k) ==
    Say("Package trust key '%s' doesn't exist, likely not running on a debian based host. Skipping transfer.", k)

\* step 2, one iteration of the loop over config.Keys (a returning iteration runs
\* the deferred f.Close calls)
uploadHostPackageTrustKey ==
    /\ pc = "uploadHostPackageTrust"
    /\ key <= Len(config.Keys)
    /\ LET step == "uploadHostPackageTrust"
           k == config.Keys[key]
       IN  \E eOpen \in {Nil, ErrOpenNotExist, ErrOpenDenied},
              eStat \in {Nil, ErrFstatNotExist, ErrFstatIO},
              eUp \in {Nil, ErrUpload} :
             LET open == Call(2, key, "host", "os.Open", <<>>, k, eOpen)
                 fstat == Call(2, key, "host", "File.Stat", <<>>, k, eStat)
                 upload == Call(2, key, "comm", "Upload", KeyRemotePath(k), k, eUp)
             IN  CASE AfterOpen(eOpen) = "continue" ->
                        /\ calls' = Append(calls, open)
                        /\ ui' = Append(ui, KeyMissing(k))
                        /\ key' = key + 1
                        /\ UNCHANGED <<pc, ret, openFiles>>
                   [] AfterOpen(eOpen) = "return" ->
                        /\ Returns(step, eOpen, <<open>>, <<>>)
                        /\ openFiles' = {}
                        /\ UNCHANGED key
                   [] AfterOpen(eOpen) = "stat" /\ AfterFstat(eStat) = "continue" ->
                        /\ calls' = calls \o <<open, fstat>>
                        /\ ui' = Append(ui, KeyMissing(k))
                        /\ key' = key + 1
                        /\ openFiles' = openFiles \cup {key}
                        /\ UNCHANGED <<pc, ret>>
                   [] AfterOpen(eOpen) = "stat" /\ AfterFstat(eStat) = "return" ->
                        /\ Returns(step, eStat, <<open, fstat>>, <<>>)
                        /\ openFiles' = {}
                        /\ UNCHANGED key
                   [] AfterOpen(eOpen) = "stat" /\ AfterFstat(eStat) = "upload"
                         /\ eUp # Nil ->
                        /\ Returns(step, eUp, <<open, fstat, upload>>,
                               <<Error("Failed to upload APT key %s", k)>>)
                        /\ openFiles' = {}
                        /\ UNCHANGED key
                   [] OTHER ->
                        /\ calls' = calls \o <<open, fstat, upload>>
                        /\ key' = key + 1
                        /\ openFiles' = openFiles \cup {key}
                        /\ UNCHANGED <<pc, ret, ui>>
    /\ UNCHANGED <<cfgVars, stepErr, fsVars>>

\* step 2, line 181: the loop is over; the deferred f.Close calls run
uploadHostPackageTrustReturn ==
    /\ pc = "uploadHostPackageTrust"
    /\ key > Len(config.Keys)
    /\ Returns("uploadHostPackageTrust", Nil, <<>>, <<>>)
    /\ openFiles' = {}
    /\ UNCHANGED <<cfgVars, key, stepErr, fsVars>>

\* a RemoteCmd run with RunWithUi by helper `step`, failing with `failure` or not
RunsCommand(step, command, failure) ==
    /\ pc = step
    /\ \E res \in {Nil, failure} :
          Returns(step, res,
              <<Call(StepNo(step), 0, "comm", "RunWithUi", command, <<>>, res)>>, <<>>)
    /\ UNCHANGED <<cfgVars, key, openFiles, stepErr, fsVars>>

\* step 3
testRemoteDNS == RunsCommand("testRemoteDNS", DnsCommand, ErrDns)

\* step 4
uploadPackageList ==
    /\ pc = "uploadPackageList"
    /\ \E res \in {Nil, ErrUpload} :
          Returns("uploadPackageList", res,
              <<Call(4, 0, "comm", "Upload", PackerListPath,
                     PackageListContent(config.Sources), res)>>, <<>>)
    /\ UNCHANGED <<cfgVars, key, openFiles, stepErr, fsVars>>

\* step 5
updateRemotePackageIndex ==
    RunsCommand("updateRemotePackageIndex", UpdateCommand, ErrUpdate)

\* step 6
installRemotePackages ==
    RunsCommand("installRemotePackages", InstallCommand(config.Packages), ErrInstall)

\* step 8
cleanRemotePackages == RunsCommand("cleanRemotePackages", CleanCommand, ErrClean)

(* ----------------------------- updateCache ----------------------------- *)

\* Movable for an mv without -n
MovableOverwriting(cache, tmp) == tmp \cap DebFiles

\* line 127, `mv -n dir/*.deb cache_dir`: the files mv may move, those `*.deb`
\* matches and -n does not find in the destination
Movable(cache, tmp) == {n \in tmp \cap DebFiles : cache[n] = "none"}

\* line 127: the destination once mv has moved `moved`
MovedInto(cache, moved) == [n \in Files |-> IF n \in moved THEN "remote" ELSE cache[n]]

\* TempDirAfterReturn for an os.RemoveAll that only the successful return reaches
TempDirAfterReturnOnSuccess(err) == IF err = Nil THEN "removed" ELSE "exists"

\* line 120, defer os.RemoveAll(dir): the temporary directory once updateCache
\* has returned err
TempDirAfterReturn(err) == "removed"

\* step 7, lines 107-120: os.Stat and ioutil.TempDir
updateCache ==
    /\ pc = "updateCache"
    /\ LET step == "updateCache"
           stat == Call(7, 0, "host", "os.Stat", <<>>, config.CacheDir, StatCacheDir)
       IN  IF IsNotExist(StatCacheDir)
           THEN /\ Returns(step, Nil, <<stat>>,
                       <<Say("Skipping updating package cache, likely not running on a debian based host.", <<>>)>>)
                /\ UNCHANGED <<tmpDir, tmpFiles>>
           ELSE IF StatCacheDir # Nil
           THEN /\ Returns(step, StatCacheDir, <<stat>>, <<>>)
                /\ UNCHANGED <<tmpDir, tmpFiles>>
           ELSE \E res \in {Nil, ErrTempDir} :
                  LET mk == Call(7, 0, "host", "ioutil.TempDir", <<>>, TempDirName, res)
                  IN  IF res # Nil
                      THEN /\ Returns(step, res, <<stat, mk>>,
                                  <<Error("APT cache update: failed to create tempdir", <<>>)>>)
                           /\ UNCHANGED <<tmpDir, tmpFiles>>
                      ELSE /\ calls' = calls \o <<stat, mk>>
                           /\ tmpDir' = "exists"
                           /\ tmpFiles' = {}
                           /\ pc' = "updateCache.DownloadDir"
                           /\ UNCHANGED <<ret, ui>>
    /\ UNCHANGED <<cfgVars, key, openFiles, stepErr, cacheKind, cacheFiles>>

\* step 7, lines 122-125: comm.DownloadDir into the temporary directory
updateCacheDownloadDir ==
    /\ pc = "updateCache.DownloadDir"
    /\ \E res \in {Nil, ErrDownloadDir}, got \in RemoteArchiveSets :
          /\ calls' = Append(calls, Call(7, 0, "comm", "DownloadDir", RemoteArchives,
                                         TempDirName, res))
          /\ IF res # Nil
             THEN /\ ui' = Append(ui,
                       Error("APT cache update: failed to download archives to %s",
                             TempDirName))
                  /\ stepErr' = res
                  /\ pc' = "updateCache.defer"
                  /\ UNCHANGED tmpFiles
             ELSE /\ tmpFiles' = got
                  /\ pc' = "updateCache.mv"
                  /\ UNCHANGED <<ui, stepErr>>
    /\ UNCHANGED <<cfgVars, ret, key, openFiles, cacheKind, cacheFiles, tmpDir>>

\* step 7, lines 127-131: the shell runs `mv -n dir/*.deb cache_dir`. Without a
\* match the pattern stays as it is and mv fails; into a directory mv moves the
\* files -n allows, all of them when it succeeds; onto a file that is no
\* directory it moves nothing.
updateCacheMove ==
    /\ pc = "updateCache.mv"
    /\ \E res \in {Nil, ErrMv}, moved \in SUBSET Movable(cacheFiles, tmpFiles) :
          /\ tmpFiles \cap DebFiles = {} => res = ErrMv
          /\ cacheKind = "dir" /\ res = Nil => moved = Movable(cacheFiles, tmpFiles)
          /\ cacheKind # "dir" => moved = {}
          /\ cacheKind # "dir" /\ Cardinality(tmpFiles \cap DebFiles) > 1 => res = ErrMv
          /\ calls' = Append(calls, Call(7, 0, "host", "mv -n", TempDirName,
                                         config.CacheDir, res))
          /\ cacheFiles' = MovedInto(cacheFiles, moved)
          /\ tmpFiles' = tmpFiles \ moved
          /\ ui' = IF res # Nil
                   THEN Append(ui, Error("APT cache update: mv: %v", <<>>))
                   ELSE ui
          /\ stepErr' = res
          /\ pc' = "updateCache.defer"
    /\ UNCHANGED <<cfgVars, ret, key, openFiles, cacheKind, tmpDir>>

\* step 7, line 120: the deferred os.RemoveAll(dir) runs and updateCache returns
updateCacheDeferred ==
    /\ pc = "updateCache.defer"
    /\ tmpDir' = TempDirAfterReturn(stepErr)
    /\ tmpFiles' = IF TempDirAfterReturn(stepErr) = "removed" THEN {} ELSE tmpFiles
    /\ Returns("updateCache", stepErr,
           IF TempDirAfterReturn(stepErr) = "removed"
           THEN <<Call(7, 0, "host", "os.RemoveAll", <<>>, TempDirName, Nil)>>
           ELSE <<>>, <<>>)
    /\ stepErr' = Nil
    /\ UNCHANGED <<cfgVars, key, openFiles, cacheKind, cacheFiles>>

(* ---------------------------- specification ---------------------------- *)

Next ==
    \/ Prepare
    \/ Provision
    \/ uploadHostPackageCache
    \/ uploadHostPackageTrustKey
    \/ uploadHostPackageTrustReturn
    \/ testRemoteDNS
    \/ uploadPackageList
    \/ updateRemotePackageIndex
    \/ installRemotePackages
    \/ updateCache
    \/ updateCacheDownloadDir
    \/ updateCacheMove
    \/ updateCacheDeferred
    \/ cleanRemotePackages

Spec == Init /\ [][Next]_vars

(* ------------------------- reading the history ------------------------- *)

Idx == 1..Len(calls)

Done == pc = "Done"

\* the calls of one kind, as indices of calls
CallsOf(call) == {i \in Idx : calls[i].call = call}
CommandsOf(command) == {i \in CallsOf("RunWithUi") : calls[i].remote = command}
InstallCalls ==
    {i \in CallsOf("RunWithUi") :
        calls[i].remote \notin {DnsCommand, UpdateCommand, CleanCommand}}
ListUploads == {i \in CallsOf("Upload") : calls[i].remote = PackerListPath}
KeyUploads == {i \in CallsOf("Upload") : calls[i].remote # PackerListPath}

UiErrors == {i \in 1..Len(ui) : ui[i].kind = "error"}
Said(text) == {i \in 1..Len(ui) : ui[i].kind = "say" /\ ui[i].text = text}

\* an error that "not found" describes
NotFound(err) ==
    err \in {"stat: no such file or directory", "open: no such file or directory",
             "fstat: no such file or directory"}

\* a call whose result makes its step fail
Fatal(c) ==
    /\ c.res # Nil
    /\ ~(c.call \in {"os.Stat", "os.Open", "File.Stat"} /\ NotFound(c.res))

IsPrefix(p, s) == Len(p) <= Len(s) /\ SubSeq(s, 1, Len(p)) = p

RECURSIVE SumLen(_, _)
SumLen(elems, n) == IF n = 0 THEN 0 ELSE SumLen(elems, n - 1) + Len(elems[n])

\* text is the elements of elems in order, one character sep between two of them
\* and, if trailing, one more after the last
IsJoined(text, elems, sep, trailing) ==
    LET n == Len(elems)
        Off(i) == SumLen(elems, i - 1) + (i - 1)
    IN  /\ Len(text) = SumLen(elems, n) + (IF trailing THEN n ELSE IF n = 0 THEN 0 ELSE n - 1)
        /\ \A i \in 1..n :
              /\ Off(i) + Len(elems[i]) <= Len(text)
              /\ SubSeq(text, Off(i) + 1, Off(i) + Len(elems[i])) = elems[i]
              /\ (i < n \/ trailing) =>
                    /\ Off(i) + Len(elems[i]) + 1 <= Len(text)
                    /\ text[Off(i) + Len(elems[i]) + 1] = sep

\* b is the last element of the path p, a path that ends in no separator
IsBaseOf(b, p) ==
    /\ b # <<>>
    /\ \A i \in 1..Len(b) : b[i] # "/"
    /\ Len(b) <= Len(p)
    /\ SubSeq(p, Len(p) - Len(b) + 1, Len(p)) = b
    /\ Len(p) > Len(b) => p[Len(p) - Len(b)] = "/"

\* the positions of Provision at which helper number n has returned without error
\* or is in its last part
PastStep(n) ==
    \/ pc \in {Steps[m] : m \in (n + 1)..Len(Steps)}
    \/ n < 7 /\ pc \in {"updateCache.DownloadDir", "updateCache.mv", "updateCache.defer"}
    \/ Done /\ (ret = Nil \/ \E i \in Idx : calls[i].step > n)

(* -------------------------------- claims -------------------------------- *)

\* C1: when steps 1-7 succeed and the `apt-get clean` of step 8 fails, Provision
\* logs the failure and returns no error. (Provision returns the error: line 100.)
C1_CleanFailureReturnsOk ==
    (Done /\ \E i \in CommandsOf(CleanCommand) : calls[i].res # Nil)
        => (ret = Nil /\ UiErrors # {})

\* C2: when a step among 1-7 fails, no upload, download or remote command is
\* issued after the failing call, Provision goes on to no later step, and it
\* returns the error of the failing call.
C2_FailureEndsTheRun ==
    \A i \in Idx :
        (calls[i].step \in 1..7 /\ Fatal(calls[i])) =>
            /\ \A j \in Idx : j > i => calls[j].on # "comm"
            /\ pc \in {"Done", "updateCache.defer"}
            /\ Done => ret = calls[i].res

C2_Witness ==
    /\ Done
    /\ \E i \in InstallCalls : calls[i].res # Nil
    /\ CommandsOf(UpdateCommand) # {}
    /\ ret # Nil

\* the place of a channel operation in the order of C3, 0 for an operation that
\* has none
Rank(c) ==
    CASE c.call = "UploadDir" /\ c.remote = RemoteArchives -> 1
      [] c.call = "Upload" /\ IsPrefix(TrustedDir, c.remote) -> 2
      [] c.call = "RunWithUi" /\ c.remote = DnsCommand -> 3
      [] c.call = "Upload" /\ c.remote = PackerListPath -> 4
      [] c.call = "RunWithUi" /\ c.remote = UpdateCommand -> 5
      [] c.call = "RunWithUi" /\ IsPrefix(InstallPrefix, c.remote) -> 6
      [] c.call = "DownloadDir" /\ c.remote = RemoteArchives -> 7
      [] c.call = "RunWithUi" /\ c.remote = CleanCommand -> 8
      [] OTHER -> 0

\* C3: the channel operations are issued in the order cache upload, key uploads,
\* DNS wait, source-list upload, apt-get update, apt-get install, archive
\* download, apt-get clean; each is in the history with its result before the
\* next is issued, and only key uploads occur more than once.
C3_FixedOrder ==
    \A i \in Idx : calls[i].on = "comm" =>
        /\ Rank(calls[i]) \in 1..8
        /\ \A j \in Idx : (j > i /\ calls[j].on = "comm") =>
              \/ Rank(calls[i]) < Rank(calls[j])
              \/ Rank(calls[i]) = 2 /\ Rank(calls[j]) = 2

C3_Witness ==
    /\ Done
    /\ ret = Nil
    /\ \A r \in 1..8 : \E i \in Idx : calls[i].on = "comm" /\ Rank(calls[i]) = r

\* C4: in a run past the DNS wait, an empty `sources` gives no upload of the
\* source list and no apt-get update, and the run goes on with the install step;
\* a non-empty `sources` gives exactly one upload to packer.list, of the lines in
\* input order each followed by a newline, and then, if the upload succeeded,
\* exactly one apt-get update.
C4_SourceList ==
    /\ Cardinality(ListUploads) <= 1
    /\ Cardinality(CommandsOf(UpdateCommand)) <= 1
    /\ (PastStep(3) /\ config.Sources = <<>>) =>
          /\ ListUploads = {}
          /\ CommandsOf(UpdateCommand) = {}
          /\ pc \notin {"uploadPackageList", "updateRemotePackageIndex"}
    /\ (PastStep(3) /\ config.Sources # <<>> /\ pc # "uploadPackageList") =>
          \E i \in ListUploads :
              /\ IsJoined(calls[i].local, config.Sources, "\n", TRUE)
              /\ \E d \in CommandsOf(DnsCommand) : d < i
              /\ IF calls[i].res = Nil /\ pc # "updateRemotePackageIndex"
                 THEN CommandsOf(UpdateCommand) = {i + 1}
                 ELSE CommandsOf(UpdateCommand) = {}

C4_Witness ==
    /\ Done
    /\ config.Sources = <<<<"y", " ", "z">>, <<"x">>>>
    /\ \E i \in ListUploads :
          /\ calls[i].local = <<"y", " ", "z", "\n", "x", "\n">>
          /\ CommandsOf(UpdateCommand) = {i + 1}

\* the install command for `packages`, as C7 describes it
IsInstallCommand(text, packages) ==
    /\ IsPrefix(InstallPrefix, text)
    /\ IsJoined(SubSeq(text, Len(InstallPrefix) + 1, Len(text)), packages, " ", FALSE)

\* C7: a run that reaches step 6 issues the install command exactly once, also
\* for an empty `packages`; its text is the fixed prefix and the packages in input
\* order with single spaces between them; no remote command is issued twice.
C7_InstallOnce ==
    /\ \A i \in InstallCalls : IsInstallCommand(calls[i].remote, config.Packages)
    /\ \A c \in {DnsCommand, UpdateCommand, CleanCommand} : Cardinality(CommandsOf(c)) <= 1
    /\ Cardinality(InstallCalls) <= 1
    /\ PastStep(5) /\ pc # "installRemotePackages" => Cardinality(InstallCalls) = 1

C7_Witness ==
    /\ Done
    /\ config.Packages = <<<<"b", "c">>, <<"a">>>>
    /\ \E i \in InstallCalls : calls[i].remote = InstallPrefix \o <<"b", "c", " ", "a">>

\* C8: a Prepare whose input decodes ends with cache_dir /var/cache/apt/archives
\* if it decoded empty and unchanged otherwise, so never empty, and with packages,
\* sources and keys as decoded; a Prepare whose input does not decode returns the
\* error and sets no default.
C8_PrepareDefault ==
    /\ prepared = Nil =>
          /\ raws.ok
          /\ config.CacheDir # <<>>
          /\ raws.value.CacheDir = <<>> =>
                config.CacheDir =
                    <<"/", "v", "a", "r", "/", "c", "a", "c", "h", "e", "/", "a", "p", "t",
                      "/", "a", "r", "c", "h", "i", "v", "e", "s">>
          /\ raws.value.CacheDir # <<>> => config.CacheDir = raws.value.CacheDir
          /\ config.Packages = raws.value.Packages
          /\ config.Sources = raws.value.Sources
          /\ config.Keys = raws.value.Keys
    /\ prepared \notin {Nil, "pending"} =>
          /\ ~raws.ok
          /\ prepared = ErrDecode
          /\ config \in {ZeroConfig, raws.value}
          /\ pc = "NotStarted"

C8_Witness ==
    /\ prepared = Nil
    /\ raws.value.CacheDir = <<>>
    /\ config.CacheDir = DefaultCacheDir
    /\ config.Packages # <<>>

\* the calls of step 2 made for the key at index k
KeyCalls(k, call) == {i \in CallsOf(call) : calls[i].step = 2 /\ calls[i].item = k}

\* C6: step 2 takes the keys in input order. A key whose file opens and stats is
\* uploaded exactly once, to /etc/apt/trusted.gpg.d/<base name of its path>; a
\* missing file gives no upload and no error, and the keys after it are still
\* processed; the first other file error or upload error ends the run with that
\* error, with no later key touched; if every key is missing step 2 succeeds
\* with no upload.
C6_TrustKeys ==
    /\ \A i \in KeyUploads : calls[i].step = 2 /\ calls[i].item \in 1..Len(config.Keys)
    /\ LET step2 == {i \in Idx : calls[i].step = 2}
       IN  \A i \in step2 : \A j \in step2 : i < j => calls[i].item <= calls[j].item
    /\ \A k \in 1..Len(config.Keys) :
          LET opens == KeyCalls(k, "os.Open")
              fstats == KeyCalls(k, "File.Stat")
              ups == KeyCalls(k, "Upload")
              here == opens \cup fstats \cup ups
              readable == /\ \E i \in opens : calls[i].res = Nil
                          /\ \E i \in fstats : calls[i].res = Nil
              missing == \E i \in opens \cup fstats : NotFound(calls[i].res)
              reached == PastStep(2) \/ (pc = "uploadHostPackageTrust" /\ key > k)
                            \/ \E i \in Idx : calls[i].step = 2 /\ calls[i].item > k
          IN  /\ Cardinality(opens) <= 1 /\ Cardinality(ups) <= 1
              /\ reached => Cardinality(opens) = 1
              /\ \A i \in here : calls[i].local = config.Keys[k]
              /\ readable =>
                    \E i \in ups :
                        /\ IsPrefix(TrustedDir, calls[i].remote)
                        /\ IsBaseOf(SubSeq(calls[i].remote, Len(TrustedDir) + 1,
                                           Len(calls[i].remote)), config.Keys[k])
              /\ ~readable => ups = {}
              /\ missing => ups = {} /\ reached
              /\ \A i \in here : Fatal(calls[i]) =>
                    /\ Done /\ ret = calls[i].res
                    /\ \A j \in Idx : j > i => calls[j].on # "comm"
                    /\ \A j \in Idx : calls[j].step = 2 => calls[j].item <= k
    /\ (config.Keys # <<>>
          /\ \A k \in 1..Len(config.Keys) :
                \E i \in KeyCalls(k, "os.Open") \cup KeyCalls(k, "File.Stat") :
                    NotFound(calls[i].res))
         => /\ KeyUploads = {}
            /\ PastStep(2) \/ (pc = "uploadHostPackageTrust" /\ key > Len(config.Keys))

C6_Witness ==
    /\ Done
    /\ config.Keys = <<<<"k">>, <<"d", "/", "j">>, <<"k">>>>
    /\ \E i \in KeyCalls(1, "os.Open") : NotFound(calls[i].res)
    /\ \E i \in KeyCalls(2, "Upload") :
          calls[i].res = Nil /\ calls[i].remote = TrustedDir \o <<"j">>
    /\ \E i \in KeyCalls(3, "File.Stat") : ret = calls[i].res /\ ~NotFound(ret)

\* C9: a run that fails in one of steps 1-7 has logged exactly one ui.Error, and
\* a run that returns no error has logged none. (Provision logs nothing when
\* uploadHostPackageTrust or updateCache fails, and these log nothing themselves
\* when os.Open, f.Stat or os.Stat fails.)
C9_FatalErrorLoggedOnce ==
    Done =>
        /\ ret = Nil => UiErrors = {}
        /\ (ret # Nil /\ \E i \in Idx : calls[i].step \in 1..7 /\ Fatal(calls[i]))
              => Cardinality(UiErrors) = 1

C5_Steps(uploaded) ==
    /\ cacheKind = "absent" =>
          /\ CallsOf("UploadDir") = {} /\ CallsOf("DownloadDir") = {}
          /\ pc \notin {"NotStarted", Steps[1]} =>
                /\ PastStep(1)
                /\ Cardinality(Said("Host APT package cache not found, likely not running on a debian based host. Proceeding regardless")) = 1
          /\ (PastStep(6) /\ pc # "updateCache") =>
                /\ PastStep(7)
                /\ Cardinality(Said("Skipping updating package cache, likely not running on a debian based host.")) = 1
    /\ (cacheKind \in uploaded /\ pc \notin {"NotStarted", Steps[1]}) =>
          /\ Cardinality(CallsOf("UploadDir")) = 1
          /\ \A i \in CallsOf("UploadDir") :
                /\ calls[i].remote = RemoteArchives
                /\ calls[i].local = config.CacheDir
                /\ calls[i].res = Nil <=> PastStep(1)
    /\ (cacheKind \in {"dir", "file"} \ uploaded /\ pc \notin {"NotStarted", Steps[1]}) =>
          CallsOf("UploadDir") = {} /\ PastStep(1)
    /\ (cacheKind \in {"dir", "file"} /\ PastStep(6) /\ pc # "updateCache") =>
          /\ Cardinality(CallsOf("ioutil.TempDir")) = 1
          /\ \A t \in CallsOf("ioutil.TempDir") :
                (calls[t].res = Nil /\ pc # "updateCache.DownloadDir") =>
                    /\ CallsOf("DownloadDir") = {t + 1}
                    /\ calls[t + 1].remote = RemoteArchives
                    /\ calls[t + 1].local = calls[t].local

\* what C5 says of the move of step 7: only downloaded .deb files enter
\* cache_dir, no file already there is replaced, a move that succeeds into a
\* directory leaves every downloaded .deb file in it, and nothing else in the
\* run changes cache_dir.
C5_Merge ==
    IF pc = "updateCache.mv"
    THEN /\ \A n \in Files : cacheFiles[n] # "none" => cacheFiles'[n] = cacheFiles[n]
         /\ \A n \in Files : cacheFiles'[n] # cacheFiles[n] => n \in tmpFiles \cap DebFiles
         /\ (cacheKind = "dir" /\ stepErr' = Nil) =>
               \A n \in tmpFiles \cap DebFiles : cacheFiles'[n] # "none"
    ELSE cacheFiles' = cacheFiles

\* C5, as the claim has it: step 1 uploads every cache_dir that exists, also one
\* that is no directory.
C5_EveryExistingPathUploaded == C5_Steps({"dir", "file"})

\* C5, amended: step 1 uploads a cache_dir that is a directory and skips, without
\* error, one that exists and is no directory; the rest as the claim has it.
C5_HostCache == [](C5_Steps({"dir"})) /\ [][C5_Merge]_vars

C5_Witness ==
    /\ Done /\ ret = Nil
    /\ cacheKind = "dir"
    /\ CallsOf("UploadDir") # {}
    /\ cacheFiles["p.deb"] = "host"
    /\ cacheFiles["q.deb"] = "remote"

====
